---- MODULE Spec2Model ----
(***************************************************************************)
(* A model of transcribe.py: the command-line run of main (import guard,   *)
(* version guard, argument parsing, input validation, model loading,       *)
(* transcription, output path resolution, file write, report, FFmpeg       *)
(* check) and of its pure helper resolve_output_path.                      *)
(*                                                                         *)
(* A path is a sequence of components, a component is a sequence of        *)
(* characters; the anchor "/" is the component Root.  A text is a sequence *)
(* of characters.  The file system holds no symbolic links.                *)
(***************************************************************************)
EXTENDS Integers, Sequences, FiniteSets, TLC

VARIABLES
    pc,            \* the statement main is about to execute, or "End" / "Failed"
    initial_files, \* history: the file system the run started in
    version_info,  \* sys.version_info, as <<major, minor>>
    whisper_ok,    \* whether `import whisper` finds the module
    ffmpeg_ok,     \* whether shutil.which("ffmpeg") finds an executable
    argv,          \* the command line, before parsing
    files,         \* the file system's regular files: path -> content
    args,          \* the parsed namespace
    input_path,    \* main's input_path
    model,         \* the loaded model's name, or "unloaded"
    result,        \* result["text"], as returned by model.transcribe
    text,          \* main's text
    output_path,   \* main's output_path
    preview,       \* main's preview
    stdout,        \* lines printed to standard output
    stderr,        \* lines printed to standard error
    exit_status,   \* the process's exit status, -1 while it runs
    failure,       \* why the run failed, "none" otherwise
    calls,         \* history: the file-system, model and helper calls made
    stages         \* history: the stages of the run, in the order completed

vars == <<pc, initial_files, version_info, whisper_ok, ffmpeg_ok, argv, files, args, input_path,
          model, result, text, output_path, preview, stdout, stderr, exit_status,
          failure, calls, stages>>

(***************************************************************************)
(* Bounds.                                                                 *)
(***************************************************************************)
\* File names of the path helper's inputs have at most this many characters.
MaxNameLen == 5
\* Transcripts have 0..MaxExtra characters, or within MaxExtra of PreviewLimit.
MaxExtra == 1

(***************************************************************************)
(* Optional values (Python's None).                                        *)
(***************************************************************************)
None == [present |-> FALSE, value |-> <<>>]
Some(v) == [present |-> TRUE, value |-> v]
\* Python truthiness of an Optional[str]: None and "" are falsy.
Truthy(o) == o.present /\ o.value # <<>>

(***************************************************************************)
(* pathlib (POSIX flavour, Python 3.8 - 3.11).                             *)
(***************************************************************************)
Root == <<"/">>
Dot == <<".">>
DotDot == <<".", ".">>
Tilde == <<"~">>
\* The environment: the user's home directory and the working directory.
Home == <<Root, <<"h">>>>
Cwd == <<Root, <<"d">>>>
\* The directories that exist.
Dirs == {<<Root>>, Home, Cwd}

IsAbsolute(p) == Len(p) > 0 /\ p[1] = Root

\* Path(s): "." components are dropped when the string is parsed.
PathOf(s) == SelectSeq(s, LAMBDA c : c # Dot)

expanduser_identity(p) == p

\* Path.expanduser(): a leading "~" component becomes the home directory.
expanduser(p) ==
    IF Len(p) > 0 /\ p[1] = Tilde THEN Home \o Tail(p) ELSE p

\* The lexical walk of os.path.realpath: ".." pops a component, never the anchor.
RECURSIVE Walk(_, _)
Walk(done, rest) ==
    IF rest = <<>> THEN done
    ELSE IF Head(rest) = DotDot
         THEN Walk(IF Len(done) > 1 THEN SubSeq(done, 1, Len(done) - 1) ELSE done,
                   Tail(rest))
         ELSE Walk(Append(done, Head(rest)), Tail(rest))

\* Path.resolve(): made absolute against the working directory, ".." removed.
resolve(p) ==
    LET abs == IF IsAbsolute(p) THEN p ELSE Cwd \o p
    IN  Walk(<<Root>>, Tail(abs))

\* Path.name: the final component, empty for the anchor alone and for Path("").
name(p) == IF Len(p) = 0 \/ p = <<Root>> THEN <<>> ELSE p[Len(p)]

\* Path.parent's components: everything but the final component.
parent(p) == IF name(p) = <<>> THEN p ELSE SubSeq(p, 1, Len(p) - 1)

\* str.rfind("."), 1-based; 0 when there is no dot.
RECURSIVE rfind_dot(_, _)
rfind_dot(n, i) ==
    IF i = 0 THEN 0 ELSE IF n[i] = "." THEN i ELSE rfind_dot(n, i - 1)

stem_first_dot(p) ==
    LET n == name(p)
        dots == {i \in 1..Len(n) : n[i] = "."}
    IN  IF dots = {} THEN n
        ELSE SubSeq(n, 1, (CHOOSE i \in dots : \A j \in dots : i <= j) - 1)

\* Path.stem: the name up to its last dot, unless that dot leads or ends the name.
stem(p) ==
    LET n == name(p)
        i == rfind_dot(n, Len(n))
    IN  IF 1 < i /\ i < Len(n) THEN SubSeq(n, 1, i - 1) ELSE n

\* The outcome of a call: a value, or the exception raised.
Ok(v) == [ok |-> TRUE, value |-> v, error |-> "none"]
Raise(e) == [ok |-> FALSE, value |-> <<>>, error |-> e]

\* Path.with_name(new): ValueError when the path has an empty name.
with_name(p, new) ==
    IF name(p) = <<>> THEN Raise("ValueError")
    ELSE Ok(Append(SubSeq(p, 1, Len(p) - 1), new))

\* resolve_output_path(input_path, provided, task)
resolve_output_path(ip, provided, task) ==
    IF Truthy(provided)
    THEN Ok(resolve(expanduser(PathOf(provided.value))))
    ELSE with_name(ip, stem(ip) \o <<"_", task, ".", "txt">>)

(***************************************************************************)
(* Texts.                                                                  *)
(***************************************************************************)
\* The slice bound and the length test of the preview.
PreviewLimit == 1000
\* The character appended to a truncated preview (U+2026).
Ellipsis == "ELLIPSIS"
\* The characters str.strip() removes.
Whitespace == {" ", "\n", "\t"}

RECURSIVE lstrip_from(_, _)
lstrip_from(s, i) ==
    IF i > Len(s) THEN i ELSE IF s[i] \in Whitespace THEN lstrip_from(s, i + 1) ELSE i

RECURSIVE rstrip_to(_, _)
rstrip_to(s, i) ==
    IF i < 1 THEN i ELSE IF s[i] \in Whitespace THEN rstrip_to(s, i - 1) ELSE i

lstrip_only(s) == SubSeq(s, lstrip_from(s, 1), Len(s))

\* str.strip(): leading and trailing whitespace removed.
strip(s) == SubSeq(s, lstrip_from(s, 1), rstrip_to(s, Len(s)))

Min(a, b) == IF a <= b THEN a ELSE b

make_preview_ge(t) ==
    SubSeq(t, 1, Min(Len(t), PreviewLimit))
        \o (IF Len(t) >= PreviewLimit THEN <<Ellipsis>> ELSE <<>>)

\* text[:1000] + ("..." if len(text) > 1000 else "")
make_preview(t) ==
    SubSeq(t, 1, Min(Len(t), PreviewLimit))
        \o (IF Len(t) > PreviewLimit THEN <<Ellipsis>> ELSE <<>>)

(***************************************************************************)
(* The inputs of a run.                                                    *)
(***************************************************************************)
AWav == <<"a", ".", "wav">>
VTarGz == <<"v", ".", "tar", ".", "gz">>
OTxt == <<"o", ".", "txt">>

\* The positional argument: absent, "a.wav", "~/../h/v.tar.gz", "/".
InputArgs ==
    {None, Some(<<AWav>>), Some(<<Tilde, DotDot, <<"h">>, VTarGz>>), Some(<<Root>>)}

\* -o: absent, "", "o.txt", "~/o.txt", "/nodir/o.txt".
OutputArgs ==
    {None, Some(<<>>), Some(<<OTxt>>), Some(<<Tilde, OTxt>>),
     Some(<<Root, <<"nodir">>, OTxt>>)}

TaskChoices_any == {"transcribe", "translate", "summarize"}

\* choices=["transcribe", "translate"]
TaskChoices == {"transcribe", "translate"}

\* The names whisper.load_model knows; "bogus" is not one of them.
ModelNames == {"tiny", "base", "small", "medium", "large", "large-v2"}

Argvs ==
    [input : InputArgs, model : {"small", "bogus"}, output : OutputArgs,
     language : {None}, task : {"transcribe", "translate", "summarize"}]

\* The namespace before parse_args has returned.
NoArgs == [input |-> <<>>, model |-> "", output |-> None, language |-> None,
           task |-> ""]

Media == <<"RIFF">>
OldText == <<"o", "l", "d">>
NoFiles == [p \in {} |-> <<>>]
InputFiles == (<<Root, <<"d">>, AWav>> :> Media) @@ (<<Root, <<"h">>, VTarGz>> :> Media)
\* The file systems a run starts in: empty, the media files, and the media files
\* beside transcripts of an earlier run.
InitialFiles ==
    {NoFiles, InputFiles,
     InputFiles @@ (<<Root, <<"d">>, <<"a", "_", "transcribe", ".", "txt">>>> :> OldText)
                @@ (<<Root, <<"d">>, OTxt>> :> OldText)
                @@ (<<Root, <<"h">>, OTxt>> :> OldText)}

\* A transcript body of n characters with inner whitespace and none at its ends.
Body(n) ==
    [i \in 1..n |-> IF i % 11 = 6 THEN " " ELSE IF i % 2 = 0 THEN "b" ELSE "a"]

TextLengths ==
    (0..MaxExtra) \cup ((PreviewLimit - MaxExtra)..(PreviewLimit + MaxExtra))

\* What model.transcribe may return as result["text"].
RawTexts ==
    {l \o Body(n) \o r : l \in {<<>>, <<" ", "\n">>}, r \in {<<>>, <<"\t">>},
                         n \in TextLengths}

(***************************************************************************)
(* The file system and the process.                                        *)
(***************************************************************************)
exists_always(fs, p) == TRUE

\* Path.exists()
exists(fs, p) == p \in DOMAIN fs \/ p \in Dirs

\* Path.write_text(content): creates or overwrites; raises when the parent
\* directory is missing or the path is a directory.
write_text(fs, p, content) ==
    IF p \in Dirs THEN Raise("IsADirectoryError")
    ELSE IF parent(p) \notin Dirs THEN Raise("FileNotFoundError")
    ELSE Ok((p :> content) @@ fs)

Line(kind, path, body) == [kind |-> kind, path |-> path, body |-> body]

exit_code_zero(cause) == 0

\* The status of a failed run: 2 from argparse's parser.error, 1 from
\* sys.exit(<message>) and from an uncaught exception.
exit_code(cause) == IF cause = "UsageError" THEN 2 ELSE 1

MainOrder_write_first ==
    <<"import", "version", "parse", "validate", "resolve", "write", "load",
      "transcribe", "strip", "report", "ffmpeg", "End">>

MainOrder_parse_first ==
    <<"import", "parse", "version", "validate", "load", "transcribe", "strip",
      "resolve", "write", "report", "ffmpeg", "End">>

\* The statements of the script in program order.
MainOrder ==
    <<"import", "version", "parse", "validate", "load", "transcribe", "strip",
      "resolve", "write", "report", "ffmpeg", "End">>

\* The statement after p.
next_pc(p) ==
    MainOrder[(CHOOSE i \in 1..(Len(MainOrder) - 1) : MainOrder[i] = p) + 1]

\* The stage of the run that is complete once statement p has succeeded.
StageOf(p) ==
    CASE p = "version"    -> <<"EnvironmentChecked">>
      [] p = "parse"      -> <<"ArgsParsed">>
      [] p = "validate"   -> <<"InputValidated">>
      [] p = "load"       -> <<"ModelLoaded">>
      [] p = "transcribe" -> <<"TranscriptionDone">>
      [] p = "resolve"    -> <<"OutputResolved">>
      [] p = "write"      -> <<"OutputWritten">>
      [] p = "ffmpeg"     -> <<"End">>
      [] OTHER            -> <<>>

\* Statement p succeeded: control moves to the next statement.
Advance(p) ==
    /\ pc' = next_pc(p)
    /\ stages' = stages \o StageOf(p)
    /\ exit_status' = IF next_pc(p) = "End" THEN 0 ELSE exit_status
    /\ UNCHANGED failure

\* sys.exit(<message>), parser.error or an uncaught exception: the diagnostic
\* goes to standard error and the process ends.
Fail(cause, line) ==
    /\ pc' = "Failed"
    /\ stages' = Append(stages, "Failed")
    /\ exit_status' = exit_code(cause)
    /\ failure' = cause
    /\ stderr' = Append(stderr, line)

Init ==
    /\ pc = "import"
    /\ version_info \in {<<3, 11>>, <<3, 12>>}
    /\ whisper_ok \in BOOLEAN
    /\ ffmpeg_ok \in BOOLEAN
    /\ argv \in Argvs
    /\ files \in InitialFiles
    /\ initial_files = files
    /\ args = NoArgs
    /\ input_path = <<>>
    /\ model = "unloaded"
    /\ result = <<>>
    /\ text = <<>>
    /\ output_path = <<>>
    /\ preview = <<>>
    /\ stdout = <<>>
    /\ stderr = <<>>
    /\ exit_status = -1
    /\ failure = "none"
    /\ calls = <<>>
    /\ stages = <<"Start">>

\* try: import whisper / except ModuleNotFoundError: sys.exit(...)
ImportWhisper ==
    /\ pc = "import"
    /\ IF whisper_ok
       THEN Advance("import") /\ UNCHANGED stderr
       ELSE Fail("ImportError", Line("whisper_not_found", <<>>, <<>>))
    /\ UNCHANGED <<initial_files, version_info, whisper_ok, ffmpeg_ok, argv, files, args, input_path,
                   model, result, text, output_path, preview, stdout, calls>>

\* if sys.version_info >= (3, 12): sys.exit(...)
CheckVersion ==
    /\ pc = "version"
    /\ IF version_info[1] > 3 \/ (version_info[1] = 3 /\ version_info[2] >= 12)
       THEN Fail("VersionError", Line("python_too_new", <<>>, <<>>))
       ELSE Advance("version") /\ UNCHANGED stderr
    /\ UNCHANGED <<initial_files, version_info, whisper_ok, ffmpeg_ok, argv, files, args, input_path,
                   model, result, text, output_path, preview, stdout, calls>>

\* args = parse_args(argv): the positional is required, --task has choices
ParseArgs ==
    /\ pc = "parse"
    /\ IF ~argv.input.present \/ argv.task \notin TaskChoices
       THEN /\ Fail("UsageError", Line("usage", <<>>, <<>>))
            /\ UNCHANGED args
       ELSE /\ args' = [input |-> argv.input.value, model |-> argv.model,
                        output |-> argv.output, language |-> argv.language,
                        task |-> argv.task]
            /\ Advance("parse")
            /\ UNCHANGED stderr
    /\ UNCHANGED <<initial_files, version_info, whisper_ok, ffmpeg_ok, argv, files, input_path,
                   model, result, text, output_path, preview, stdout, calls>>

\* input_path = Path(args.input).expanduser().resolve()
\* if not input_path.exists(): sys.exit(f"File not found: {input_path}")
ValidateInput ==
    /\ pc = "validate"
    /\ input_path' = resolve(expanduser(PathOf(args.input)))
    /\ calls' = Append(calls, "exists")
    /\ IF exists(files, input_path')
       THEN Advance("validate") /\ UNCHANGED stderr
       ELSE Fail("InputNotFound", Line("file_not_found", input_path', <<>>))
    /\ UNCHANGED <<initial_files, version_info, whisper_ok, ffmpeg_ok, argv, files, args,
                   model, result, text, output_path, preview, stdout>>

\* print("Loading Whisper model ..."); model = whisper.load_model(args.model)
LoadModel ==
    /\ pc = "load"
    /\ stdout' = Append(stdout, Line("loading", <<>>, <<args.model>>))
    /\ calls' = Append(calls, "load_model")
    /\ \E loaded \in (IF args.model \in ModelNames THEN BOOLEAN ELSE {FALSE}) :
          IF loaded
          THEN /\ model' = args.model
               /\ Advance("load")
               /\ UNCHANGED stderr
          ELSE /\ Fail("ModelError", Line("traceback", <<>>, <<"load_model">>))
               /\ UNCHANGED model
    /\ UNCHANGED <<initial_files, version_info, whisper_ok, ffmpeg_ok, argv, files, args, input_path,
                   result, text, output_path, preview>>

\* print("Transcribing"); result = model.transcribe(str(input_path), task=...,
\* language=..., fp16=False)
Transcribe ==
    /\ pc = "transcribe"
    /\ stdout' = Append(stdout, Line("transcribing", <<>>, <<>>))
    /\ calls' = Append(calls, "transcribe")
    /\ \E out \in {Raise("RuntimeError")} \cup {Ok(t) : t \in RawTexts} :
          IF out.ok
          THEN /\ result' = out.value
               /\ Advance("transcribe")
               /\ UNCHANGED stderr
          ELSE /\ Fail("ModelError", Line("traceback", <<>>, <<"transcribe">>))
               /\ UNCHANGED result
    /\ UNCHANGED <<initial_files, version_info, whisper_ok, ffmpeg_ok, argv, files, args, input_path,
                   model, text, output_path, preview>>

\* text: str = result["text"].strip()
StripText ==
    /\ pc = "strip"
    /\ text' = strip(result)
    /\ Advance("strip")
    /\ UNCHANGED <<initial_files, version_info, whisper_ok, ffmpeg_ok, argv, files, args, input_path,
                   model, result, output_path, preview, stdout, stderr, calls>>

\* output_path = resolve_output_path(input_path, args.output, args.task)
ResolveOutput ==
    /\ pc = "resolve"
    /\ calls' = Append(calls, "resolve_output_path")
    /\ LET r == resolve_output_path(input_path, args.output, args.task)
       IN  IF r.ok
           THEN /\ output_path' = r.value
                /\ Advance("resolve")
                /\ UNCHANGED stderr
           ELSE /\ Fail(r.error, Line("traceback", <<>>, <<"with_name">>))
                /\ UNCHANGED output_path
    /\ UNCHANGED <<initial_files, version_info, whisper_ok, ffmpeg_ok, argv, files, args, input_path,
                   model, result, text, preview, stdout>>

\* output_path.write_text(text, encoding="utf-8")
WriteText ==
    /\ pc = "write"
    /\ calls' = Append(calls, "write_text")
    /\ LET w == write_text(files, output_path, text)
       IN  IF w.ok
           THEN /\ files' = w.value
                /\ Advance("write")
                /\ UNCHANGED stderr
           ELSE /\ Fail(w.error, Line("traceback", <<>>, <<"write_text">>))
                /\ UNCHANGED files
    /\ UNCHANGED <<initial_files, version_info, whisper_ok, ffmpeg_ok, argv, args, input_path,
                   model, result, text, output_path, preview, stdout>>

\* print(f"Done! Transcript saved to: {output_path}"); print(header)
\* preview = text[:1000] + (...); print(preview)
Report ==
    /\ pc = "report"
    /\ preview' = make_preview(text)
    /\ stdout' = stdout \o <<Line("saved", output_path, <<>>),
                             Line("preview_header", <<>>, <<>>),
                             Line("preview", <<>>, make_preview(text))>>
    /\ Advance("report")
    /\ UNCHANGED <<initial_files, version_info, whisper_ok, ffmpeg_ok, argv, files, args, input_path,
                   model, result, text, output_path, stderr, calls>>

\* if shutil.which("ffmpeg") is None: print(warning, file=sys.stderr)
CheckFfmpeg ==
    /\ pc = "ffmpeg"
    /\ calls' = Append(calls, "which")
    /\ stderr' = IF ffmpeg_ok THEN stderr
                 ELSE Append(stderr, Line("ffmpeg_warning", <<>>, <<>>))
    /\ Advance("ffmpeg")
    /\ UNCHANGED <<initial_files, version_info, whisper_ok, ffmpeg_ok, argv, files, args, input_path,
                   model, result, text, output_path, preview, stdout>>

Next ==
    \/ ImportWhisper
    \/ CheckVersion
    \/ ParseArgs
    \/ ValidateInput
    \/ LoadModel
    \/ Transcribe
    \/ StripText
    \/ ResolveOutput
    \/ WriteText
    \/ Report
    \/ CheckFfmpeg

Spec == Init /\ [][Next]_vars

(***************************************************************************)
(* resolve_output_path on its own: one call on inputs drawn from bounded   *)
(* sets.                                                                   *)
(***************************************************************************)
NameChars == {"a", "."}
Names == UNION {[1..n -> NameChars] : n \in 1..MaxNameLen} \ {Dot, DotDot}

\* Input paths: absolute and relative files, "/", "" and "..".
HelperInputs ==
    {<<Root, <<"d">>, n>> : n \in Names} \cup {<<n>> : n \in Names}
        \cup {<<Root>>, <<>>, <<DotDot>>}

\* provided: the -o values of a run, ".", and "/d/../h/o.txt".
HelperOutputs ==
    OutputArgs \cup {Some(<<Dot>>), Some(<<Root, <<"d">>, DotDot, <<"h">>, OTxt>>)}

InitResolve ==
    /\ pc = "call"
    /\ input_path \in HelperInputs
    /\ args \in [input : {<<>>}, model : {"small"}, output : HelperOutputs,
                 language : {None}, task : TaskChoices]
    /\ version_info = <<3, 11>>
    /\ whisper_ok = TRUE
    /\ ffmpeg_ok = TRUE
    /\ argv = NoArgs
    /\ files = NoFiles
    /\ initial_files = NoFiles
    /\ model = "unloaded"
    /\ result = <<>>
    /\ text = <<>>
    /\ output_path = <<>>
    /\ preview = <<>>
    /\ stdout = <<>>
    /\ stderr = <<>>
    /\ exit_status = -1
    /\ failure = "none"
    /\ calls = <<>>
    /\ stages = <<>>

\* resolve_output_path(input_path, provided, task) returns or raises
ResolveCall ==
    /\ pc = "call"
    /\ calls' = Append(calls, "resolve_output_path")
    /\ LET r == resolve_output_path(input_path, args.output, args.task)
       IN  IF r.ok
           THEN output_path' = r.value /\ pc' = "returned" /\ UNCHANGED failure
           ELSE failure' = r.error /\ pc' = "raised" /\ UNCHANGED output_path
    /\ UNCHANGED <<initial_files, version_info, whisper_ok, ffmpeg_ok, argv, files, args, input_path,
                   model, result, text, preview, stdout, stderr, exit_status, stages>>

NextResolve == ResolveCall

SpecResolve == InitResolve /\ [][NextResolve]_vars

(***************************************************************************)
(* Properties.                                                             *)
(***************************************************************************)
Has(seq, x) == \E i \in 1..Len(seq) : seq[i] = x
Count(seq, x) == Cardinality({i \in 1..Len(seq) : seq[i] = x})
HasLine(stream, kind) == \E i \in 1..Len(stream) : stream[i].kind = kind
Terminated == pc \in {"End", "Failed"}
ModelTouched == Has(calls, "load_model") \/ Has(calls, "transcribe")
\* The run has resolved its input path, and no file or directory is there.
InputMissing ==
    /\ Has(calls, "exists")
    /\ input_path \notin DOMAIN initial_files
    /\ input_path \notin Dirs

\* C1: a run whose resolved input path does not exist ends Failed with a
\* non-zero status and a diagnostic naming the resolved path, and neither
\* whisper.load_model nor model.transcribe is called.
C1_MissingInputFailsBeforeModel ==
    InputMissing =>
        /\ pc = "Failed"
        /\ exit_status > 0
        /\ \E i \in 1..Len(stderr) :
              stderr[i].kind = "file_not_found" /\ stderr[i].path = input_path
        /\ IsAbsolute(input_path)
        /\ ~ModelTouched
        /\ model = "unloaded"

C1_Witness ==
    /\ pc = "Failed"
    /\ InputMissing
    /\ argv.input = Some(<<AWav>>)
    /\ input_path = <<Root, <<"d">>, AWav>>

\* C2: a run whose --task value is neither "transcribe" nor "translate" makes
\* no file-system call and no model call, never completes argument parsing, and
\* once parse_args has been reached it has ended with the usage error (status 2);
\* however it ends, it ends Failed with a non-zero status.
C2_InvalidTaskFailsFirst ==
    argv.task \notin {"transcribe", "translate"} =>
        /\ calls = <<>>
        /\ files = initial_files
        /\ ~Has(stages, "ArgsParsed")
        /\ Has(stages, "EnvironmentChecked") /\ pc # "parse" =>
              pc = "Failed" /\ failure = "UsageError" /\ exit_status = 2
        /\ Terminated => pc = "Failed" /\ exit_status > 0

C2_Witness ==
    /\ argv.task = "summarize"
    /\ argv.input.present
    /\ pc = "Failed"
    /\ failure = "UsageError"

\* The call of resolve_output_path has returned or raised.
CallDone == pc \in {"returned", "raised"}

\* ext is the last extension of file name n: empty when n has none, else a dot
\* and at least one character without a dot, after a non-empty rest.
IsLastExtension(n, ext) ==
    LET k == Len(n) - Len(ext)
        Splits(j) == /\ j > 1
                     /\ j < Len(n)
                     /\ n[j] = "."
                     /\ \A i \in (j + 1)..Len(n) : n[i] # "."
    IN  /\ k >= 0
        /\ SubSeq(n, k + 1, Len(n)) = ext
        /\ IF ext = <<>> THEN \A j \in 1..Len(n) : ~Splits(j) ELSE Splits(k + 1)

\* The derived path lies beside ip and is named "<stem>_<task>.txt".
DerivedBeside(ip, out, task) ==
    /\ Len(out) = Len(ip)
    /\ SubSeq(out, 1, Len(out) - 1) = SubSeq(ip, 1, Len(ip) - 1)
    /\ \E k \in 0..Len(name(ip)) :
          /\ IsLastExtension(name(ip), SubSeq(name(ip), k + 1, Len(name(ip))))
          /\ out[Len(out)] = SubSeq(name(ip), 1, k) \o <<"_", task, ".", "txt">>

\* C3 as stated: for every input path and valid task, resolve_output_path(input,
\* None, task) returns a path in the input's directory named "<stem>_<task>.txt".
C3_Original ==
    CallDone /\ ~args.output.present =>
        pc = "returned" /\ DerivedBeside(input_path, output_path, args.task)

\* C3 amended: the same for every input path that has a file name (a non-empty
\* final component); for "/" and "" the call raises ValueError instead.
C3_DerivedSiblingPath ==
    CallDone /\ ~args.output.present =>
        IF name(input_path) # <<>>
        THEN pc = "returned" /\ DerivedBeside(input_path, output_path, args.task)
        ELSE pc = "raised" /\ failure = "ValueError"

C3_Witness ==
    /\ pc = "returned"
    /\ ~args.output.present
    /\ args.task = "translate"
    /\ input_path = <<Root, <<"d">>, <<"a", ".", "a", ".", "a">>>>
    /\ output_path = <<Root, <<"d">>, <<"a", ".", "a", "_", "translate", ".", "txt">>>>

\* The absolute form of the -o values a call is given.
AbsoluteForm(s) ==
    CASE s = <<OTxt>>                                  -> <<Root, <<"d">>, OTxt>>
      [] s = <<Tilde, OTxt>>                           -> <<Root, <<"h">>, OTxt>>
      [] s = <<Root, <<"nodir">>, OTxt>>               -> <<Root, <<"nodir">>, OTxt>>
      [] s = <<Dot>>                                   -> <<Root, <<"d">>>>
      [] s = <<Root, <<"d">>, DotDot, <<"h">>, OTxt>>  -> <<Root, <<"h">>, OTxt>>
      [] OTHER                                         -> <<"no absolute form">>

\* The call returned the provided path in absolute form, whatever the input
\* path and the task.
ReturnsProvided ==
    /\ pc = "returned"
    /\ output_path = AbsoluteForm(args.output.value)
    /\ IsAbsolute(output_path)
    /\ \A i \in 1..Len(output_path) : output_path[i] \notin {Dot, DotDot, Tilde}
    /\ \A ip \in HelperInputs, t \in {"transcribe", "translate"} :
          resolve_output_path(ip, args.output, t) = Ok(output_path)

\* C4 as stated: whenever an output path is provided, whatever string it is,
\* resolve_output_path returns that path in absolute form, independently of the
\* task and of the input path.
C4_Original == CallDone /\ args.output.present => ReturnsProvided

\* C4 amended: the same whenever the provided output path is a non-empty
\* string; an empty string is treated as no output path at all.
C4_ProvidedPathReturned ==
    CallDone /\ args.output.present =>
        IF args.output.value # <<>>
        THEN ReturnsProvided
        ELSE resolve_output_path(input_path, args.output, args.task)
                 = resolve_output_path(input_path, None, args.task)

C4_Witness ==
    /\ pc = "returned"
    /\ args.output = Some(<<Tilde, OTxt>>)
    /\ args.task = "translate"
    /\ output_path = <<Root, <<"h">>, OTxt>>

\* The preview has been computed and printed.
Previewed == HasLine(stdout, "preview")

\* C5: a text longer than 1000 characters is previewed as its first 1000
\* characters followed by exactly one truncation marker; a text of at most 1000
\* characters (1000 and 0 included) is previewed whole, with no marker.
C5_PreviewTruncation ==
    Previewed =>
        /\ \E i \in 1..Len(stdout) :
              stdout[i].kind = "preview" /\ stdout[i].body = preview
        /\ IF Len(text) > 1000
           THEN /\ Len(preview) = 1001
                /\ \A i \in 1..1000 : preview[i] = text[i]
                /\ preview[1001] = Ellipsis
           ELSE /\ preview = text
                /\ ~Has(preview, Ellipsis)

C5_Witness ==
    /\ pc = "End"
    /\ Len(text) = 1001
    /\ Len(preview) = 1001
    /\ preview[1001] = Ellipsis

\* C6 as stated: in a run without FFmpeg that got as far as the main task (model
\* loading, transcription), the FFmpeg check is reached and the warning emitted
\* once the main task has finished, whether it succeeded or failed.
C6_WarningAfterMainTask ==
    ~ffmpeg_ok /\ ModelTouched /\ Terminated =>
        Has(calls, "which") /\ HasLine(stderr, "ffmpeg_warning")

\* The run cannot get past its guards, or its model calls raised.
MustFail ==
    \/ ~whisper_ok
    \/ version_info \notin {<<3, 8>>, <<3, 9>>, <<3, 10>>, <<3, 11>>}
    \/ argv.task \notin {"transcribe", "translate"}
    \/ InputMissing
    \/ HasLine(stderr, "traceback")

\* C7: a run that has written the transcript exits with status 0, with or
\* without the FFmpeg warning; a run exits with a non-zero status when whisper
\* is not importable, the runtime version is incompatible, the input file is not
\* found, the --task value is invalid, or model loading or transcription raised.
C7_ExitStatus ==
    /\ ~Terminated => exit_status = -1
    /\ Terminated /\ Has(stages, "OutputWritten") =>
          pc = "End" /\ exit_status = 0 /\ output_path \in DOMAIN files
    /\ Terminated /\ HasLine(stderr, "ffmpeg_warning") =>
          pc = "End" /\ exit_status = 0
    /\ Terminated /\ MustFail => pc = "Failed" /\ exit_status \in {1, 2}
    /\ Terminated => (pc = "End") = (exit_status = 0)

C7_Witness ==
    /\ pc = "End"
    /\ exit_status = 0
    /\ ~ffmpeg_ok
    /\ HasLine(stderr, "ffmpeg_warning")
    /\ output_path \in DOMAIN files

ClaimedOrder ==
    <<"Start", "ArgsParsed", "EnvironmentChecked", "InputValidated", "OutputResolved",
      "ModelLoaded", "TranscriptionDone", "OutputWritten", "End">>

CodeOrder ==
    <<"Start", "EnvironmentChecked", "ArgsParsed", "InputValidated", "ModelLoaded",
      "TranscriptionDone", "OutputResolved", "OutputWritten", "End">>

\* The stages visited so far are an initial part of order, each once and in that
\* order, followed at most by Failed; End and Failed are final.
FollowsOrder(order) ==
    /\ \E k \in 1..Len(order) :
          \/ stages = SubSeq(order, 1, k) /\ pc # "Failed"
          \/ stages = Append(SubSeq(order, 1, k), "Failed") /\ pc = "Failed" /\ k < Len(order)
    /\ (pc = "End") = Has(stages, "End")
    /\ Terminated => ~ENABLED Next

\* C8 as stated: the stages run in the order Start, ArgsParsed,
\* EnvironmentChecked, InputValidated, output path resolved, ModelLoaded,
\* TranscriptionDone, OutputWritten, End, with Failed reachable from any of them.
C8_Original == FollowsOrder(ClaimedOrder)

\* C8 amended: the order is Start, EnvironmentChecked, ArgsParsed,
\* InputValidated, ModelLoaded, TranscriptionDone, output path resolved,
\* OutputWritten, End; no stage twice, none out of order, Failed final.
C8_StageOrder == FollowsOrder(CodeOrder)

C8_Witness == pc = "End" /\ stages = CodeOrder

\* t is raw without its leading and trailing whitespace.
IsTrimOf(t, raw) ==
    /\ t = <<>> \/ (t[1] \notin Whitespace /\ t[Len(t)] \notin Whitespace)
    /\ \E a \in 0..(Len(raw) - Len(t)) :
          /\ SubSeq(raw, a + 1, a + Len(t)) = t
          /\ \A i \in (1..a) \cup ((a + Len(t) + 1)..Len(raw)) : raw[i] \in Whitespace

\* C9: in a run that writes output, the output path is computed once, the file
\* written is the one the success message names, and its content is the model's
\* text with leading and trailing whitespace trimmed, which the preview is
\* taken from.
C9_OneOutputPath ==
    Has(stages, "OutputWritten") =>
        /\ Count(calls, "resolve_output_path") = 1
        /\ Count(calls, "write_text") = 1
        /\ output_path \in DOMAIN files
        /\ files[output_path] = text
        /\ IsTrimOf(text, result)
        /\ \A p \in DOMAIN files :
              p # output_path => p \in DOMAIN initial_files /\ files[p] = initial_files[p]
        /\ DOMAIN initial_files \subseteq DOMAIN files
        /\ \A i \in 1..Len(stdout) :
              /\ stdout[i].kind = "saved" => stdout[i].path = output_path
              /\ stdout[i].kind = "preview" =>
                    \A j \in 1..Min(Len(text), 1000) : stdout[i].body[j] = text[j]
        /\ Terminated => Count(stdout, Line("saved", output_path, <<>>)) = 1

C9_Witness ==
    /\ pc = "End"
    /\ result # text
    /\ Len(text) > 1
    /\ args.output = Some(<<Tilde, OTxt>>)
    /\ files[<<Root, <<"h">>, OTxt>>] = text
    /\ initial_files # NoFiles
    /\ Has(stdout, Line("saved", <<Root, <<"h">>, OTxt>>, <<>>))

\* C10: a run that fails with a usage error, an incompatible runtime version, a
\* missing input file, or an error raised by model loading or transcription
\* leaves every file as it was: no file is created or overwritten, and
\* write_text is not called.
C10_FailedRunWritesNothing ==
    pc = "Failed"
        /\ failure \in {"UsageError", "VersionError", "InputNotFound", "ModelError"} =>
            /\ files = initial_files
            /\ ~Has(calls, "write_text")
            /\ ~Has(stages, "OutputWritten")

C10_Witness ==
    /\ pc = "Failed"
    /\ failure = "ModelError"
    /\ Has(calls, "transcribe")
    /\ <<Root, <<"d">>, OTxt>> \in DOMAIN files
    /\ args.output = Some(<<OTxt>>)
    /\ files[<<Root, <<"d">>, OTxt>>] = OldText

====
